---- MODULE Spec2Model ----
(***************************************************************************)
(* genie::Simpson2D, the 2-D extended Simpson rule integrator              *)
(* (src/src/Numerical/Simpson2D.cxx).                                      *)
(*                                                                         *)
(* One call of Simpson2D::Integrate is a state machine: IntegrateEnter is  *)
(* the precondition check and the construction of the locals, one          *)
(* IntegrateIterate step is one pass of the refinement loop (densify,      *)
(* populate the function map, SimpsonRule, error test), IntegrateAbort is  *)
(* the fall-through to abort().                                            *)
(*                                                                         *)
(* Reals are exact rationals [n, d].  A grid coordinate is held as its     *)
(* index on the finest grid the bounds allow (0..Fine per axis).  With     *)
(* linear spacing the function's domain is [0,3] x [0,3]; with spacing in  *)
(* ln(x) it is [1,2^Fine] x [1,2^Fine], so that every grid point is a      *)
(* power of two, the step is a rational multiple of ln(2), and every       *)
(* quadrature sum is held in units of ln(2)^2.                             *)
(***************************************************************************)
EXTENDS Integers, Sequences, FiniteSets, TLC

MaxLevel == 2        \* largest exponent n of a grid of 2^n + 1 points
MaxIterations == 4   \* largest configured max-iterations
MaxNstep == 2        \* largest configured initial-nstep

Fine == 2^MaxLevel

VARIABLES
  fConfig,               \* the registry Configure() was given
  fIMaxConv, fNo, fMaxPcntErr, fSpacing, fFastDensityIncrease,
  gsfunc,                \* the function handed to Integrate
  pc,                    \* where the call is
  ndim, constructed, grid, fmap,
  sum, sum_old, err, n, np, iter,
  result,                \* the value returned, if any
  calls,                 \* gsfunc(x) invocations per coordinate
  evals                  \* gsfunc(x) invocations of the last iteration

vars == <<fConfig, fIMaxConv, fNo, fMaxPcntErr, fSpacing, fFastDensityIncrease,
          gsfunc, pc, ndim, constructed, grid, fmap, sum, sum_old, err, n, np,
          iter, result, calls, evals>>

----------------------------------------------------------------------------
(* Exact rational arithmetic standing for double arithmetic. *)

Abs(x) == IF x < 0 THEN -x ELSE x

RECURSIVE GCD(_, _)
GCD(a, b) == IF b = 0 THEN a ELSE GCD(b, a % b)

Rat(num, den) ==
  LET s == IF den < 0 THEN -1 ELSE 1
      g == GCD(Abs(num), Abs(den))
  IN  [n |-> s * (num \div g), d |-> s * (den \div g)]

Zero == [n |-> 0, d |-> 1]
Half == [n |-> 1, d |-> 2]
RInt(k) == [n |-> k, d |-> 1]

RAdd(a, b) ==
  LET g == GCD(a.d, b.d)
  IN  Rat(a.n * (b.d \div g) + b.n * (a.d \div g), (a.d \div g) * b.d)

RNeg(a) == [n |-> -a.n, d |-> a.d]
RSub(a, b) == RAdd(a, RNeg(b))
RAbs(a) == [n |-> Abs(a.n), d |-> a.d]

RMul(a, b) ==
  LET g1 == GCD(Abs(a.n), b.d)
      g2 == GCD(Abs(b.n), a.d)
  IN  IF a.n = 0 \/ b.n = 0 THEN Zero
      ELSE [n |-> (a.n \div g1) * (b.n \div g2), d |-> (a.d \div g2) * (b.d \div g1)]

RInv(a) == IF a.n < 0 THEN [n |-> -a.d, d |-> -a.n] ELSE [n |-> a.d, d |-> a.n]
RDiv(a, b) == RMul(a, RInv(b))
RIsZero(a) == a.n = 0

\* a < b, by continued fractions: no product is formed
RECURSIVE RLess(_, _)
RLess(a, b) ==
  LET fa == a.n \div a.d
      fb == b.n \div b.d
      ra == a.n % a.d
      rb == b.n % b.d
  IN  IF fa # fb THEN fa < fb
      ELSE IF rb = 0 THEN FALSE
      ELSE IF ra = 0 THEN TRUE
      ELSE RLess([n |-> b.d, d |-> rb], [n |-> a.d, d |-> ra])

----------------------------------------------------------------------------
(* The integrable functions (GSFunc) the model calls Integrate with. *)

Level(i) == CHOOSE l \in 0..MaxLevel :
              /\ i % (Fine \div 2^l) = 0
              /\ \A k \in 0..MaxLevel : i % (Fine \div 2^k) = 0 => l <= k

Max(a, b) == IF a < b THEN b ELSE a

SmallFunctions ==
  [kind : {"const"}, c : {0, 1, -1}, nparams : {2}]
    \cup [kind : {"prod", "negprod", "noise"}, c : {0}, nparams : {2}]
    \cup [kind : {"const"}, c : {1}, nparams : {3}]

LargeFunctions == [kind : {"const"}, c : {1111111, 2500000}, nparams : {2}]

Functions == SmallFunctions \cup LargeFunctions

NParams(f) == f.nparams

\* gsfunc(x): the raw value at the point whose coordinate is c
GSFuncValue(f, c) ==
  CASE f.kind = "const"   -> f.c
    [] f.kind = "prod"    -> c[1] * c[2]
    [] f.kind = "negprod" -> -(c[1] * c[2]) - 1
    [] f.kind = "noise"   -> IF Max(Level(c[1]), Level(c[2])) % 2 = 0 THEN 5 ELSE -7

----------------------------------------------------------------------------
(* UnifGrid and FunctionMap. *)

Dims == 0..1

NoGrid == [d \in Dims |-> 0]
InitGrid == [d \in Dims |-> 2]
EmptyMap == [c \in {} |-> 0]
AllCoords == (0..Fine) \X (0..Fine)

\* the linear domain [0,3]: its length; the loge domain [1,2^Fine]: ln(max/min)/ln(2)
DomainLength(spacing) == IF spacing = "kGSpLoge" THEN Fine ELSE 3

\* curr_grid(idim, k) as an index of the finest grid
Coord(npoints, k) == k * (Fine \div (npoints - 1))
\* the value of the coordinate: x = 2^c on the loge grid (used by the Jacobian only)
XValue(c) == 2^c

NPoints(g, idim) == g[idim]
Step(g, idim, spacing) == Rat(DomainLength(spacing), g[idim] - 1)

GridIndices(g) == (0..(g[0] - 1)) \X (0..(g[1] - 1))
PosCoord(g, pos) == <<Coord(g[0], pos[1]), Coord(g[1], pos[2])>>
GridCoords(g) == {PosCoord(g, pos) : pos \in GridIndices(g)}

IncreaseGridDensity(g, newnp, idim) ==
  [d \in Dims |-> IF idim = -1 \/ idim = d THEN newnp ELSE g[d]]

ValueIsSet(fm, c) == c \in DOMAIN fm
SetValue(fm, y, c) == [k \in (DOMAIN fm) \cup {c} |-> IF k = c THEN y ELSE fm[k]]
Value(fm, g, pos) == fm[PosCoord(g, pos)]

----------------------------------------------------------------------------
(* Simpson2D::LoadConfigData *)

Unset == "unset"

Configs ==
  [max_iterations : 0..MaxIterations,
   initial_nstep : 0..MaxNstep,
   max_error : {1, 50, 250},
   in_loge : BOOLEAN,
   fast_density_increase : {"true", "false", Unset}]

LoadSpacing(config) == IF config.in_loge THEN "kGSpLoge" ELSE "kGSpLinear"
LoadFastDensityIncrease(config) == config.fast_density_increase = "true"

----------------------------------------------------------------------------
(* Simpson2D::Integrate *)

SumOldSentinel == 9999999
\* 9999999 / ln(2)^2 = 20813687.7287...: the sentinel in units of ln(2)^2 lies
\* strictly between these two; both roundings are followed
SumOldSentinelLoge == {20813687, 20813688}

SumOldInit(spacing) ==
  IF spacing = "kGSpLoge" THEN {RInt(s) : s \in SumOldSentinelLoge} ELSE {RInt(SumOldSentinel)}

NoResult == [set |-> FALSE, val |-> Zero]
Returned(v) == [set |-> TRUE, val |-> v]

Init ==
  /\ fConfig \in Configs
  /\ gsfunc \in Functions
  /\ fConfig.in_loge => gsfunc \in SmallFunctions
  /\ fIMaxConv = fConfig.max_iterations
  /\ fNo = fConfig.initial_nstep
  /\ fMaxPcntErr = RInt(fConfig.max_error)
  /\ fSpacing = LoadSpacing(fConfig)
  /\ fFastDensityIncrease = LoadFastDensityIncrease(fConfig)
  /\ pc = "call"
  /\ ndim = 0
  /\ constructed = FALSE
  /\ grid = NoGrid
  /\ fmap = EmptyMap
  /\ sum = Zero
  /\ sum_old = Zero
  /\ err = Zero
  /\ n = 0
  /\ np = 0
  /\ iter = 0
  /\ result = NoResult
  /\ calls = [c \in AllCoords |-> 0]
  /\ evals = 0


\* a check that lets a function of more than two parameters through
AssertNdimAtLeast(nd) == nd >= 2

AssertNdim(nd) == nd = 2

IntegrateEnter ==
  /\ pc = "call"
  /\ ndim' = NParams(gsfunc)
  /\ IF AssertNdim(NParams(gsfunc))
     THEN /\ pc' = "loop"
          /\ constructed' = TRUE
          /\ grid' = InitGrid
          /\ fmap' = EmptyMap
          /\ sum' = Zero
          /\ sum_old' \in SumOldInit(fSpacing)
          /\ err' = Zero
          /\ n' = fNo
          /\ np' = 0
          /\ iter' = 0
     ELSE /\ pc' = "assert_failed"
          /\ UNCHANGED <<constructed, grid, fmap, sum, sum_old, err, n, np, iter>>
  /\ UNCHANGED <<fConfig, fIMaxConv, fNo, fMaxPcntErr, fSpacing, fFastDensityIncrease,
                 gsfunc, result, calls, evals>>


\* one pass too many
LoopGuardInclusive(it) == it <= fIMaxConv

LoopGuard(it) == it < fIMaxConv

\* the density is raised on this pass: always when fast, else once per ndim passes
RefinesNow(it) == fFastDensityIncrease \/ it % ndim = 0

NextNp(it, n_, np_) == IF RefinesNow(it) THEN 2^n_ + 1 ELSE np_


\* n++ forgotten
NextNStuck(it, n_) == n_

NextN(it, n_) == IF RefinesNow(it) THEN n_ + 1 ELSE n_

\* the dimension handed to IncreaseGridDensity; -1 is "all dimensions".  idim is
\* declared inside the loop body, so a pass that does not set it to 0 passes -1.
Idim(it) == IF fFastDensityIncrease THEN -1 ELSE IF it % ndim = 0 THEN 0 ELSE -1

\* if(fSpacing==kGSpLoge) y *= (x[0]*x[1])

\* the Jacobian of one dimension only
JacobianOneDim(c) == IF fSpacing = "kGSpLoge" THEN XValue(c[1]) ELSE 1

Jacobian(c) == IF fSpacing = "kGSpLoge" THEN XValue(c[1]) * XValue(c[2]) ELSE 1

CachedValue(c) == GSFuncValue(gsfunc, c) * Jacobian(c)

\* the index pairs the two nested loops visit

\* the inner loop stops one point early
LoopPointsShort(g) == (0..(NPoints(g, 0) - 1)) \X (0..(NPoints(g, 1) - 2))

LoopPoints(g) == (0..(NPoints(g, 0) - 1)) \X (0..(NPoints(g, 1) - 1))


\* the cache is never consulted
NeedsEvalAlways(fm, c) == TRUE

NeedsEval(fm, c) == ~ValueIsSet(fm, c)

ToEval(fm, g) == {c \in {PosCoord(g, pos) : pos \in LoopPoints(g)} : NeedsEval(fm, c)}

\* the function map after the populate loops: SetValue(y, x) at every point evaluated
Populate(fm, g) ==
  [c \in (DOMAIN fm) \cup ToEval(fm, g) |->
     IF c \in ToEval(fm, g) THEN SetValue(fm, CachedValue(c), c)[c] ELSE fm[c]]

\* err / 200: the relative difference.  err itself is 200 times this; it is kept
\* undivided so that no intermediate leaves the machine range.

\* the absolute value taken of the difference only
RelErrSignedDenominator(s, so) == RDiv(RAbs(RSub(s, so)), RAdd(s, so))

RelErr(s, so) == RAbs(RDiv(RSub(s, so), RAdd(s, so)))

\* err < fMaxPcntErr
Converged(e) == RLess(e, RDiv(fMaxPcntErr, RInt(200)))

----------------------------------------------------------------------------
(* Simpson2D::SimpsonRule *)


\* the 4,2,4 pattern shifted by one
InteriorWeightShifted(k) == ((k + 1) % 2) + 1

InteriorWeight(k) == (k % 2) + 1

RECURSIVE InteriorSum1d(_, _, _, _)
InteriorSum1d(fm, g, i, j) ==
  IF j >= NPoints(g, 1) - 1 THEN 0
  ELSE Value(fm, g, <<i, j>>) * InteriorWeight(j) + InteriorSum1d(fm, g, i, j + 1)

Sum1d(fm, g, spacing, i) ==
  LET ends == RAdd(RMul(Half, RInt(Value(fm, g, <<i, 0>>))),
                   RMul(Half, RInt(Value(fm, g, <<i, NPoints(g, 1) - 1>>))))
  IN  RMul(RAdd(ends, RInt(InteriorSum1d(fm, g, i, 1))),
           RDiv(RMul(RInt(2), Step(g, 1, spacing)), RInt(3)))

RECURSIVE InteriorSum2d(_, _, _, _)
InteriorSum2d(fm, g, spacing, i) ==
  IF i >= NPoints(g, 0) - 1 THEN Zero
  ELSE RAdd(RMul(Sum1d(fm, g, spacing, i), RInt(InteriorWeight(i))),
            InteriorSum2d(fm, g, spacing, i + 1))

SimpsonRule(fm, g, spacing) ==
  LET ends == RDiv(RAdd(Sum1d(fm, g, spacing, 0), Sum1d(fm, g, spacing, NPoints(g, 0) - 1)),
                   RInt(2))
  IN  RMul(RAdd(ends, InteriorSum2d(fm, g, spacing, 1)),
           RDiv(RMul(RInt(2), Step(g, 0, spacing)), RInt(3)))

\* func_map.Value(pos) finds a value at every position the quadrature reads
LookupOk(fm, g) == \A pos \in GridIndices(g) : ValueIsSet(fm, PosCoord(g, pos))

----------------------------------------------------------------------------

IntegrateIterate ==
  /\ pc = "loop"
  /\ LoopGuard(iter)
  /\ RefinesNow(iter) => n <= MaxLevel
  /\ LET np2 == NextNp(iter, n, np)
         g2  == IncreaseGridDensity(grid, np2, Idim(iter))
         new == ToEval(fmap, g2)
         fm2 == Populate(fmap, g2)
         s   == SimpsonRule(fm2, g2, fSpacing)
     IN  /\ np' = np2
         /\ n' = NextN(iter, n)
         /\ grid' = g2
         /\ fmap' = fm2
         /\ calls' = [c \in AllCoords |-> calls[c] + (IF c \in new THEN 1 ELSE 0)]
         /\ evals' = Cardinality(new)
         /\ IF ~LookupOk(fm2, g2)
            THEN /\ pc' = "lookup_error"
                 /\ UNCHANGED <<sum, sum_old, err, iter, result>>
            ELSE /\ sum' = s
                 /\ IF RIsZero(RAdd(s, sum_old))
                    THEN /\ pc' = "returned"
                         /\ result' = Returned(Zero)
                         /\ UNCHANGED <<sum_old, err, iter>>
                    ELSE /\ err' = RelErr(s, sum_old)
                         /\ IF Converged(RelErr(s, sum_old))
                            THEN /\ pc' = "returned"
                                 /\ result' = Returned(s)
                                 /\ UNCHANGED <<sum_old, iter>>
                            ELSE /\ pc' = "loop"
                                 /\ sum_old' = s
                                 /\ iter' = iter + 1
                                 /\ UNCHANGED result
  /\ UNCHANGED <<fConfig, fIMaxConv, fNo, fMaxPcntErr, fSpacing, fFastDensityIncrease,
                 gsfunc, ndim, constructed>>

IntegrateAbort ==
  /\ pc = "loop"
  /\ ~LoopGuard(iter)
  /\ pc' = "aborted"
  /\ UNCHANGED <<fConfig, fIMaxConv, fNo, fMaxPcntErr, fSpacing, fFastDensityIncrease,
                 gsfunc, ndim, constructed, grid, fmap, sum, sum_old, err, n, np, iter,
                 result, calls, evals>>

Next == IntegrateEnter \/ IntegrateIterate \/ IntegrateAbort

Spec == Init /\ [][Next]_vars

----------------------------------------------------------------------------
(* SimpsonRule alone, on function maps of every shape *)

RuleValues == {-1, 0, 2}

RuleGrids == [Dims -> {2^l + 1 : l \in 0..MaxLevel}]

RuleMaps(g) ==
  IF Cardinality(GridCoords(g)) <= 6
  THEN [GridCoords(g) -> RuleValues]
  ELSE {[c \in GridCoords(g) |-> IF c = p THEN v ELSE w] :
          p \in GridCoords(g), v \in RuleValues, w \in RuleValues}

InitRule ==
  /\ fConfig \in {c \in Configs : /\ c.max_iterations = 0
                                  /\ c.initial_nstep = 0
                                  /\ c.max_error = 1
                                  /\ c.fast_density_increase = Unset}
  /\ gsfunc \in {f \in Functions : f.kind = "noise"}
  /\ fIMaxConv = fConfig.max_iterations
  /\ fNo = fConfig.initial_nstep
  /\ fMaxPcntErr = RInt(fConfig.max_error)
  /\ fSpacing = LoadSpacing(fConfig)
  /\ fFastDensityIncrease = LoadFastDensityIncrease(fConfig)
  /\ pc = "rule"
  /\ ndim = 2
  /\ constructed = TRUE
  /\ grid \in RuleGrids
  /\ fmap \in RuleMaps(grid)
  /\ sum = Zero
  /\ sum_old = Zero
  /\ err = Zero
  /\ n = 0
  /\ np = 0
  /\ iter = 0
  /\ result = NoResult
  /\ calls = [c \in AllCoords |-> 0]
  /\ evals = 0

ApplyRule ==
  /\ pc = "rule"
  /\ sum' = SimpsonRule(fmap, grid, fSpacing)
  /\ pc' = "rule_done"
  /\ UNCHANGED <<fConfig, fIMaxConv, fNo, fMaxPcntErr, fSpacing, fFastDensityIncrease,
                 gsfunc, ndim, constructed, grid, fmap, sum_old, err, n, np, iter,
                 result, calls, evals>>

NextRule == ApplyRule

RuleSpec == InitRule /\ [][NextRule]_vars

----------------------------------------------------------------------------
(* Properties *)

Evaluated == np > 0
GuardHit == RIsZero(RAdd(sum, sum_old))
ReturnedConverged == pc = "returned" /\ ~GuardHit

\* C1: Integrate never returns a value once the iteration budget is exhausted:
\* a return happens only inside one of the passes 0..fIMaxConv-1; from the loop
\* with iter = fIMaxConv the only step is the abort, which leaves no return value
\* and calls the function no more; with fIMaxConv = 0 the function is never called.
C1_AbortOnExhaustion ==
  /\ [](pc = "returned" => iter < fIMaxConv /\ result.set)
  /\ [](pc = "aborted" => iter = fIMaxConv /\ ~result.set)
  /\ [](fIMaxConv = 0 /\ pc # "call" => \A c \in AllCoords : calls[c] = 0)
  /\ [][(pc = "loop" /\ iter >= fIMaxConv) =>
          (pc' = "aborted" /\ result' = NoResult /\ calls' = calls)]_vars

C1_Witness ==
  /\ pc = "aborted"
  /\ fIMaxConv >= 3
  /\ gsfunc.kind = "noise"
  /\ evals > 0

\* C3: with a function whose NParams() is not 2 the call ends in the failed
\* assertion: no grid and no function map is built, the function is never
\* evaluated and nothing is returned.
C3_DimensionalityAbort ==
  (NParams(gsfunc) # 2 /\ pc # "call") =>
     /\ pc = "assert_failed"
     /\ ~constructed
     /\ grid = NoGrid
     /\ fmap = EmptyMap
     /\ \A c \in AllCoords : calls[c] = 0
     /\ evals = 0
     /\ ~result.set

C3_Witness == pc = "assert_failed" /\ NParams(gsfunc) = 3 /\ ndim = 3

\* C4: the function is invoked at most once per grid coordinate over the whole
\* call, and the invocations of one pass are exactly the points of the densified
\* grid that the grid of the previous pass did not have (before the first pass no
\* point has been evaluated, so every point of its grid is new).
PrevPoints == IF Evaluated THEN GridCoords(grid) ELSE {}

C7_LogJacobian ==
  (pc \in {"loop", "returned", "aborted"}) =>
    \A c \in DOMAIN fmap :
      fmap[c] = IF fConfig.in_loge
                THEN GSFuncValue(gsfunc, c) * (2^(c[1])) * (2^(c[2]))
                ELSE GSFuncValue(gsfunc, c)

C7_Witness ==
  /\ fConfig.in_loge
  /\ iter >= 2
  /\ \E c \in DOMAIN fmap : fmap[c] # GSFuncValue(gsfunc, c) /\ c[1] > 0 /\ c[2] > 0
  /\ \E c \in DOMAIN fmap : Level(c[1]) = 0 /\ Level(c[2]) = 0 /\ c[1] > 0 /\ c[2] > 0

\* C8: pass k densifies, in fast mode, both axes to 2^(fNo+k) + 1 points; in slow
\* mode it sets axis k mod 2 to 2^(fNo + k div 2) + 1 points and leaves the other
\* axis as it was, and after an odd pass both axes have the same point count.
C8_RefinementSchedule ==
  [][(pc = "loop" /\ iter < fIMaxConv) =>
       IF fFastDensityIncrease
       THEN \A d \in Dims : grid'[d] = 2^(fNo + iter) + 1
       ELSE /\ grid'[iter % 2] = 2^(fNo + (iter \div 2)) + 1
            /\ grid'[1 - (iter % 2)] = grid[1 - (iter % 2)]
            /\ (iter % 2 = 1 => grid'[0] = grid'[1])]_vars

C8_Witness ==
  /\ ~fFastDensityIncrease
  /\ pc = "loop"
  /\ iter = 4
  /\ grid[0] = grid[1]
  /\ grid[0] = 2^(fNo + 1) + 1

\* C10: whenever SimpsonRule has run, every index pair of the densified grid had
\* a value in the function map: no Value lookup fails.
C10_NoLookupError ==
  /\ pc # "lookup_error"
  /\ (Evaluated => \A pos \in GridIndices(grid) : PosCoord(grid, pos) \in DOMAIN fmap)

C10_Witness ==
  /\ ~fFastDensityIncrease
  /\ Evaluated
  /\ iter >= 3
  /\ grid[0] > 2
  /\ Cardinality(DOMAIN fmap) = grid[0] * grid[1]

\* C2: a sum returned as converged has been compared with the quadrature sum of
\* the pass before it and agrees with it within fMaxPcntErr percent; so the sum
\* of the very first pass (iter = 0), which has no predecessor, is never returned.
C2_ConvergedAgainstPreviousPass ==
  ReturnedConverged =>
    /\ iter >= 1
    /\ result = Returned(sum)
    /\ RLess(RAbs(RDiv(RSub(sum, sum_old), RAdd(sum, sum_old))), RDiv(fMaxPcntErr, RInt(200)))

\* C5: for a constant function c on the linear domain of area A, a call that
\* returns (other than through the sum + sum_old = 0 guard) returns c * A, and it
\* does so in the pass after the first one, where the error is zero.
Area == DomainLength("kGSpLinear") * DomainLength("kGSpLinear")

C5_ConstantFunctionExact ==
  (ReturnedConverged /\ gsfunc.kind = "const" /\ ~fConfig.in_loge) =>
     /\ result = Returned(RInt(gsfunc.c * Area))
     /\ iter <= 1

\* C6 (as stated): in every pass with sum + sum_old # 0 the error is
\* 200 * |sum - sum_old| / (sum + sum_old), the denominator signed; with
\* sum + sum_old = 0 the call returns 0 at once, err not computed.
C6_ErrSignedDenominator ==
  [][(pc = "loop" /\ iter < fIMaxConv /\ pc' # "lookup_error") =>
       IF RIsZero(RAdd(sum', sum_old))
       THEN pc' = "returned" /\ result' = Returned(Zero) /\ err' = err /\ iter' = iter
       ELSE err' = RDiv(RAbs(RSub(sum', sum_old)), RAdd(sum', sum_old))]_vars

\* C6 (amended): in every pass with sum + sum_old # 0 the error is
\* 200 * |sum - sum_old| / |sum + sum_old|, never negative; with
\* sum + sum_old = 0 the call returns 0 at once, err not computed.
C6_ErrAbsoluteRatio ==
  [][(pc = "loop" /\ iter < fIMaxConv /\ pc' # "lookup_error") =>
       IF RIsZero(RAdd(sum', sum_old))
       THEN pc' = "returned" /\ result' = Returned(Zero) /\ err' = err /\ iter' = iter
       ELSE err' = RDiv(RAbs(RSub(sum', sum_old)), RAbs(RAdd(sum', sum_old)))]_vars

C6_Witness ==
  /\ gsfunc.kind = "negprod"
  /\ iter = 2
  /\ sum.n < 0
  /\ sum = sum_old
  /\ err.n > 0

\* C9: SimpsonRule returns (2*h0/3)*(2*h1/3) * SUM_i SUM_j w0(i)*w1(j)*F(i,j) with
\* w = 1/2 at the two end indices of an axis and (k mod 2) + 1 inside.
TwiceWeight(k, npoints) == IF k = 0 \/ k = npoints - 1 THEN 1 ELSE 2 * ((k % 2) + 1)

RECURSIVE WeightedSum(_, _, _)
WeightedSum(S, fm, g) ==
  IF S = {} THEN 0
  ELSE LET pos == CHOOSE q \in S : TRUE
       IN  TwiceWeight(pos[1], g[0]) * TwiceWeight(pos[2], g[1]) * fm[PosCoord(g, pos)]
             + WeightedSum(S \ {pos}, fm, g)

TensorSimpson(fm, g, spacing) ==
  RMul(RMul(Rat(2 * DomainLength(spacing), 3 * (g[0] - 1)),
            Rat(2 * DomainLength(spacing), 3 * (g[1] - 1))),
       Rat(WeightedSum(GridIndices(g), fm, g), 4))

C9_TensorProductSimpson ==
  pc = "rule_done" => sum = TensorSimpson(fmap, grid, fSpacing)

C9_Witness ==
  /\ pc = "rule_done"
  /\ grid[0] = 2^MaxLevel + 1
  /\ grid[1] = 3
  /\ sum.n < 0
  /\ \E c \in DOMAIN fmap : fmap[c] = 2 /\ c[1] # 0 /\ c[1] # Fine /\ c[2] # 0 /\ c[2] # Fine

====
